---- MODULE Spec2Model ----
(***************************************************************************)
(* Model of the dhcpd.leases parser (src/src/parser.rs, src/src/leases.rs) *)
(* and of the lease log query engine.                                      *)
(*                                                                         *)
(* Text (Rust String) is a sequence of one-character strings, so that      *)
(* to_string, unquote_hostname and string comparison are computed.         *)
(***************************************************************************)
EXTENDS Integers, Sequences, FiniteSets, TLC

VARIABLES source, tokens, pos, lease, leases, pc, result, log, query, subject, verdict

vars == <<source, tokens, pos, lease, leases, pc, result, log, query, subject, verdict>>

parserVars == <<source, tokens, pos, lease, leases, pc, result>>

logVars == <<log, query>>

leaseVars == <<subject, verdict>>

----------------------------------------------------------------------------
(* Bounds *)

MaxStmts == 2

MaxBlocks == 3

MaxLog == 2

MaxInstant == 3

----------------------------------------------------------------------------
(* Option<T> *)

Some(x) == [some |-> TRUE, v |-> x]

NoneStr == [some |-> FALSE, v |-> <<>>]

NoneDate == [some |-> FALSE, v |-> 0]

NoneHw == [some |-> FALSE, v |-> [h_type |-> <<>>, mac |-> <<>>]]

----------------------------------------------------------------------------
(* Keywords and their text *)

LeaseKeyword == {"Abandoned", "Binding", "ClientHostname", "Cltt", "Ends", "Next",
                 "Hardware", "Hostname", "Rewind", "Set", "Starts", "Uid"}

LeaseKeyword_to_string(k) ==
    CASE k = "Abandoned" -> <<"a","b","a","n","d","o","n","e","d">>
      [] k = "Binding" -> <<"b","i","n","d","i","n","g">>
      [] k = "ClientHostname" -> <<"c","l","i","e","n","t","-","h","o","s","t","n","a","m","e">>
      [] k = "Cltt" -> <<"c","l","t","t">>
      [] k = "Ends" -> <<"e","n","d","s">>
      [] k = "Hardware" -> <<"h","a","r","d","w","a","r","e">>
      [] k = "Hostname" -> <<"h","o","s","t","n","a","m","e">>
      [] k = "Next" -> <<"n","e","x","t">>
      [] k = "Rewind" -> <<"r","e","w","i","n","d">>
      [] k = "Set" -> <<"s","e","t">>
      [] k = "Starts" -> <<"s","t","a","r","t","s">>
      [] k = "Uid" -> <<"u","i","d">>

ConfigKeyword == {"Lease", "Comment"}

ConfigKeyword_to_string(k) ==
    CASE k = "Lease" -> <<"l","e","a","s","e">>
      [] k = "Comment" -> <<"#">>

----------------------------------------------------------------------------
(* LexItem: the classified tokens handed over by the lexer *)

Endl == [kind |-> "Endl", k |-> "", v |-> <<>>]

Paren(c) == [kind |-> "Paren", k |-> "", v |-> <<c>>]

Word(w) == [kind |-> "Word", k |-> "", v |-> w]

Opt(k) == [kind |-> "Opt", k |-> k, v |-> <<>>]

Decl(k) == [kind |-> "Decl", k |-> k, v |-> <<>>]

LexItem_to_string(t) ==
    CASE t.kind = "Endl" -> <<";">>
      [] t.kind = "Paren" -> t.v
      [] t.kind = "Word" -> t.v
      [] t.kind = "Opt" -> LeaseKeyword_to_string(t.k)
      [] t.kind = "Decl" -> ConfigKeyword_to_string(t.k)

LexItem_debug(t) ==
    CASE t.kind = "Endl" -> <<"Endl">>
      [] t.kind = "Paren" -> <<"Paren('">> \o t.v \o <<"')">>
      [] t.kind = "Word" -> <<"Word(\"">> \o t.v \o <<"\")">>
      [] t.kind = "Opt" -> <<"Opt(", t.k, ")">>
      [] t.kind = "Decl" -> <<"Decl(", t.k, ")">>

Has(toks, p) == p <= Len(toks)

\* Peekable::next: consumes one item, stays put once the stream is exhausted
Advance(toks, p) == IF p <= Len(toks) THEN p + 1 ELSE p

\* the {:?} rendering of iter.peek()
peek_debug(toks, p) ==
    IF Has(toks, p) THEN <<"Some(">> \o LexItem_debug(toks[p]) \o <<")">> ELSE <<"None">>

----------------------------------------------------------------------------
(* Date: the instant built from (weekday, date, time) *)

Digits == {"0", "1", "2", "3"}

DigitVal(c) == CASE c = "0" -> 0 [] c = "1" -> 1 [] c = "2" -> 2 [] c = "3" -> 3

IsNum(s) == Len(s) = 1 /\ s[1] \in Digits

Date_from(weekday, date, time) ==
    IF IsNum(weekday) /\ IsNum(date) /\ IsNum(time)
    THEN [ok |-> TRUE, v |-> 4 * DigitVal(date[1]) + DigitVal(time[1])]
    ELSE [ok |-> FALSE, v |-> 0]

----------------------------------------------------------------------------
(* Lease *)

Lease_new ==
    [ip |-> <<"l","o","c","a","l","h","o","s","t">>,
     dates |-> [starts |-> NoneDate, ends |-> NoneDate],
     hardware |-> NoneHw,
     uid |-> NoneStr,
     cltt |-> NoneDate,
     client_hostname |-> NoneStr,
     hostname |-> NoneStr,
     abandoned |-> FALSE,
     binding |-> NoneStr,
     next_binding |-> NoneStr,
     rewind_binding |-> NoneStr]

\* mutant: the boundaries are taken as exclusive
is_active_at_exclusive(l, when) ==
    IF l.dates.starts.some /\ l.dates.starts.v >= when
    THEN FALSE
    ELSE IF l.dates.ends.some /\ l.dates.ends.v <= when
         THEN FALSE
         ELSE TRUE

is_active_at(l, when) ==
    IF l.dates.starts.some /\ l.dates.starts.v > when
    THEN FALSE
    ELSE IF l.dates.ends.some /\ l.dates.ends.v < when
         THEN FALSE
         ELSE TRUE

RECURSIVE RemoveQuotes(_)
RemoveQuotes(s) ==
    IF s = <<>> THEN <<>>
    ELSE IF Head(s) = "\"" THEN RemoveQuotes(Tail(s))
         ELSE <<Head(s)>> \o RemoveQuotes(Tail(s))

\* mutant: only a matched leading and trailing pair of quotes is stripped
unquote_hostname_outer_pair(hn) ==
    IF Len(hn) >= 2 /\ hn[1] = "\"" /\ hn[Len(hn)] = "\"" THEN SubSeq(hn, 2, Len(hn) - 1)
    ELSE hn

unquote_hostname(hn) == RemoveQuotes(hn)

----------------------------------------------------------------------------
(* Outcome of one arm of parse_lease: it falls through to the loop's        *)
(* iter.next() ("ok"), returns Err ("err"), or panics in expect ("panic").  *)

Msg(text, arg) == [text |-> text, arg |-> arg]

NoMsg == Msg("", <<>>)

Continue(l, p) == [st |-> "ok", lease |-> l, pos |-> p, msg |-> NoMsg]

ReturnErr(l, p, m) == [st |-> "err", lease |-> l, pos |-> p, msg |-> m]

PanicWith(l, p, text, arg) == [st |-> "panic", lease |-> l, pos |-> p, msg |-> Msg(text, arg)]

PanicAt(l, p, text) == PanicWith(l, p, text, <<>>)

\* match iter.peek().expect("Semicolon expected") { Endl => (), s => return Err(..) }
\* followed by the iter.next() that closes the loop body (line 609)
expect_semicolon(toks, l, p) ==
    IF ~Has(toks, p) THEN PanicAt(l, p, "Semicolon expected")
    ELSE IF toks[p].kind = "Endl" THEN Continue(l, Advance(toks, p))
    ELSE ReturnErr(l, p, Msg("Expected semicolon, found", LexItem_to_string(toks[p])))

\* mutant: no optional timezone, the terminator must follow the time
parse_date_stmt_no_timezone(toks, l, p, field, what) ==
    IF ~Has(toks, p + 1) THEN PanicWith(l, p + 1, "Weekday expected", <<what>>)
    ELSE IF ~Has(toks, p + 2) THEN PanicWith(l, p + 2, "Date expected", <<what>>)
    ELSE IF ~Has(toks, p + 3) THEN PanicWith(l, p + 3, "Time expected", <<what>>)
    ELSE LET d == Date_from(LexItem_to_string(toks[p + 1]), LexItem_to_string(toks[p + 2]),
                            LexItem_to_string(toks[p + 3]))
             l2 == CASE field = "starts" -> [l EXCEPT !.dates.starts = Some(d.v)]
                     [] field = "ends" -> [l EXCEPT !.dates.ends = Some(d.v)]
                     [] field = "cltt" -> [l EXCEPT !.cltt = Some(d.v)]
             r == expect_semicolon(toks, l2, p + 4)
         IN IF r.st = "ok" /\ ~d.ok THEN ReturnErr(l, p + 4, Msg("Date::from failed", <<>>))
            ELSE r

\* mutant: a triple the constructor rejects is stored as the default instant
parse_date_stmt_ignores_failure(toks, l, p, field, what) ==
    LET stored(pe) ==
            LET d == Date_from(LexItem_to_string(toks[p + 1]), LexItem_to_string(toks[p + 2]),
                               LexItem_to_string(toks[p + 3]))
                l2 == CASE field = "starts" -> [l EXCEPT !.dates.starts = Some(d.v)]
                        [] field = "ends" -> [l EXCEPT !.dates.ends = Some(d.v)]
                        [] field = "cltt" -> [l EXCEPT !.cltt = Some(d.v)]
            IN Continue(l2, Advance(toks, pe))
    IN IF ~Has(toks, p + 1) THEN PanicWith(l, p + 1, "Weekday expected", <<what>>)
       ELSE IF ~Has(toks, p + 2) THEN PanicWith(l, p + 2, "Date expected", <<what>>)
       ELSE IF ~Has(toks, p + 3) THEN PanicWith(l, p + 3, "Time expected", <<what>>)
       ELSE IF ~Has(toks, p + 4) THEN PanicAt(l, p + 4, "Timezone or semicolon expected")
       ELSE IF LexItem_to_string(toks[p + 4]) # LexItem_to_string(Endl)
            THEN IF ~Has(toks, p + 5) THEN PanicAt(l, p + 5, "Semicolon expected")
                 ELSE IF toks[p + 5].kind = "Endl" THEN stored(p + 5)
                 ELSE ReturnErr(l, p + 5, Msg("Expected semicolon, found",
                                              LexItem_to_string(toks[p + 5])))
            ELSE stored(p + 4)

\* the shared shape of the Starts, Ends and Cltt arms; `field` names the target
parse_date_stmt(toks, l, p, field, what) ==
    LET p1 == p + 1
        p2 == p + 2
        p3 == p + 3
        p4 == p + 4
        p5 == p + 5
        stored(pe) ==
            LET d == Date_from(LexItem_to_string(toks[p1]), LexItem_to_string(toks[p2]),
                               LexItem_to_string(toks[p3]))
                l2 == CASE field = "starts" -> [l EXCEPT !.dates.starts = Some(d.v)]
                        [] field = "ends" -> [l EXCEPT !.dates.ends = Some(d.v)]
                        [] field = "cltt" -> [l EXCEPT !.cltt = Some(d.v)]
            IN IF d.ok THEN Continue(l2, Advance(toks, pe))
               ELSE ReturnErr(l, pe, Msg("Date::from failed", <<>>))
    IN IF ~Has(toks, p1) THEN PanicWith(l, p1, "Weekday expected", <<what>>)
       ELSE IF ~Has(toks, p2) THEN PanicWith(l, p2, "Date expected", <<what>>)
       ELSE IF ~Has(toks, p3) THEN PanicWith(l, p3, "Time expected", <<what>>)
       ELSE IF ~Has(toks, p4) THEN PanicAt(l, p4, "Timezone or semicolon expected")
       ELSE IF LexItem_to_string(toks[p4]) # LexItem_to_string(Endl)
            THEN IF ~Has(toks, p5) THEN PanicAt(l, p5, "Semicolon expected")
                 ELSE IF toks[p5].kind = "Endl" THEN stored(p5)
                 ELSE ReturnErr(l, p5, Msg("Expected semicolon, found",
                                           LexItem_to_string(toks[p5])))
            ELSE stored(p4)

arm_Starts(toks, l, p) == parse_date_stmt(toks, l, p, "starts", "start")

arm_Ends(toks, l, p) == parse_date_stmt(toks, l, p, "ends", "end")

arm_Cltt(toks, l, p) == parse_date_stmt(toks, l, p, "cltt", "cltt")

arm_Hardware(toks, l, p) ==
    IF ~Has(toks, p + 1) THEN PanicAt(l, p + 1, "Hardware type expected")
    ELSE IF ~Has(toks, p + 2) THEN PanicAt(l, p + 2, "MAC address expected")
    ELSE LET hw == [h_type |-> LexItem_to_string(toks[p + 1]),
                    mac |-> LexItem_to_string(toks[p + 2])]
             r == expect_semicolon(toks, l, p + 3)
         IN IF r.st = "ok" THEN Continue([l EXCEPT !.hardware = Some(hw)], r.pos) ELSE r

\* mutant: a client identifier already set is kept, the first statement wins
arm_Uid_keeps_first(toks, l, p) ==
    IF ~Has(toks, p + 1) THEN PanicAt(l, p + 1, "Client identifier expected")
    ELSE expect_semicolon(toks,
            IF l.uid.some THEN l ELSE [l EXCEPT !.uid = Some(LexItem_to_string(toks[p + 1]))],
            p + 2)

arm_Uid(toks, l, p) ==
    IF ~Has(toks, p + 1) THEN PanicAt(l, p + 1, "Client identifier expected")
    ELSE expect_semicolon(toks, [l EXCEPT !.uid = Some(LexItem_to_string(toks[p + 1]))], p + 2)

arm_ClientHostname(toks, l, p) ==
    IF ~Has(toks, p + 1) THEN PanicAt(l, p + 1, "Client hostname expected")
    ELSE expect_semicolon(toks,
            [l EXCEPT !.client_hostname = Some(unquote_hostname(LexItem_to_string(toks[p + 1])))],
            p + 2)

arm_Hostname(toks, l, p) ==
    IF ~Has(toks, p + 1) THEN PanicAt(l, p + 1, "Hostname expected")
    ELSE expect_semicolon(toks,
            [l EXCEPT !.hostname = Some(unquote_hostname(LexItem_to_string(toks[p + 1])))],
            p + 2)

arm_Abandoned(toks, l, p) == expect_semicolon(toks, [l EXCEPT !.abandoned = TRUE], p + 1)

arm_Binding(toks, l, p) ==
    IF ~Has(toks, p + 1) THEN PanicAt(l, p + 1, "Binding state expected")
    ELSE IF ~Has(toks, p + 2) THEN PanicAt(l, p + 2, "Binding identifier expected")
    ELSE expect_semicolon(toks, [l EXCEPT !.binding = Some(LexItem_to_string(toks[p + 2]))],
                          p + 3)

\* mutant: the next binding state is stored in the binding field
arm_Next_sets_binding(toks, l, p) ==
    IF ~Has(toks, p + 1) THEN PanicAt(l, p + 1, "Next binding state expected")
    ELSE IF ~Has(toks, p + 2) THEN PanicAt(l, p + 2, "Next binding state expected")
    ELSE IF ~Has(toks, p + 3) THEN PanicAt(l, p + 3, "Next binding state identifier expected")
    ELSE expect_semicolon(toks,
            [l EXCEPT !.binding = Some(LexItem_to_string(toks[p + 3]))], p + 4)

arm_Next(toks, l, p) ==
    IF ~Has(toks, p + 1) THEN PanicAt(l, p + 1, "Next binding state expected")
    ELSE IF ~Has(toks, p + 2) THEN PanicAt(l, p + 2, "Next binding state expected")
    ELSE IF ~Has(toks, p + 3) THEN PanicAt(l, p + 3, "Next binding state identifier expected")
    ELSE expect_semicolon(toks,
            [l EXCEPT !.next_binding = Some(LexItem_to_string(toks[p + 3]))], p + 4)

arm_Rewind(toks, l, p) ==
    IF ~Has(toks, p + 1) THEN PanicAt(l, p + 1, "Rewind binding state expected")
    ELSE IF ~Has(toks, p + 2) THEN PanicAt(l, p + 2, "Rewind binding state expected")
    ELSE IF ~Has(toks, p + 3) THEN PanicAt(l, p + 3, "Next binding state identifier expected")
    ELSE expect_semicolon(toks,
            [l EXCEPT !.rewind_binding = Some(LexItem_to_string(toks[p + 3]))], p + 4)

\* two iter.next(): the keyword and one ignored token (none is required to exist)
arm_Set(toks, l, p) == expect_semicolon(toks, l, Advance(toks, p + 1))

\* mutant: a token that starts no statement is skipped
arm_default_skips(toks, l, p) == Continue(l, Advance(toks, p))

arm_default(toks, l, p) ==
    ReturnErr(l, p, Msg("Unexpected option", LexItem_to_string(toks[p])))

\* one iteration of the while loop of parse_lease on a token other than '}'
parse_lease_arm(toks, l, p) ==
    LET t == toks[p]
    IN IF t.kind # "Opt" THEN arm_default(toks, l, p)
       ELSE CASE t.k = "Starts" -> arm_Starts(toks, l, p)
              [] t.k = "Ends" -> arm_Ends(toks, l, p)
              [] t.k = "Hardware" -> arm_Hardware(toks, l, p)
              [] t.k = "Uid" -> arm_Uid(toks, l, p)
              [] t.k = "ClientHostname" -> arm_ClientHostname(toks, l, p)
              [] t.k = "Hostname" -> arm_Hostname(toks, l, p)
              [] t.k = "Abandoned" -> arm_Abandoned(toks, l, p)
              [] t.k = "Binding" -> arm_Binding(toks, l, p)
              [] t.k = "Next" -> arm_Next(toks, l, p)
              [] t.k = "Rewind" -> arm_Rewind(toks, l, p)
              [] t.k = "Cltt" -> arm_Cltt(toks, l, p)
              [] t.k = "Set" -> arm_Set(toks, l, p)

\* parse_lease as a function of the stream, the record and the cursor: the
\* loop runs arm after arm until the closing brace, the end of the stream,
\* an Err or a panic
RECURSIVE parse_lease(_, _, _)
parse_lease(toks, l, p) ==
    IF ~Has(toks, p) THEN Continue(l, p)
    ELSE IF toks[p] = Paren("}") THEN Continue(l, p)
    ELSE LET o == parse_lease_arm(toks, l, p)
         IN IF o.st = "ok" THEN parse_lease(toks, o.lease, o.pos) ELSE o

----------------------------------------------------------------------------
(* The input: a lease file as a sequence of declarations.  A declaration is *)
(* a head (the tokens up to the open brace, or a lone top-level token),     *)
(* the statements of its block and whether the block is closed.  A          *)
(* statement is its keyword ("" for a stray token), its argument tokens and *)
(* whether its terminator is there.  tokens is the flattening.              *)

Stmt(kw, args, term) == [kw |-> kw, args |-> args, term |-> term]

Item(head, stmts, closed) == [head |-> head, stmts |-> stmts, closed |-> closed]

StmtTokens(s) ==
    (IF s.kw = "" THEN <<>> ELSE <<Opt(s.kw)>>) \o s.args \o (IF s.term THEN <<Endl>> ELSE <<>>)

RECURSIVE Flatten(_)
Flatten(ss) == IF ss = <<>> THEN <<>> ELSE Head(ss) \o Flatten(Tail(ss))

ItemTokens(it) ==
    it.head \o Flatten([i \in 1..Len(it.stmts) |-> StmtTokens(it.stmts[i])])
            \o (IF it.closed THEN <<Paren("}")>> ELSE <<>>)

SourceTokens(src) == Flatten([i \in 1..Len(src) |-> ItemTokens(src[i])])

SeqsUpTo(S, n) == UNION {[1..k -> S] : k \in 0..n}

W(c) == Word(<<c>>)

Quoted(c) == Word(<<"\"", c, "\"">>)

\* the argument lists the grammar of section 4.1 accepts, per keyword
GoodArgs(kw) ==
    CASE kw \in {"Starts", "Ends", "Cltt"} -> {<<W("1"), W("1"), W("0")>>,
                                               <<W("1"), W("2"), W("0"), W("Z")>>}
      [] kw = "Hardware" -> {<<W("e"), W("m")>>, <<W("e"), W("n")>>}
      [] kw = "Uid" -> {<<W("u")>>, <<W("v")>>}
      [] kw \in {"ClientHostname", "Hostname"} -> {<<Quoted("h")>>, <<W("g")>>,
                                                    <<Word(<<"g", "\"", "h">>)>>}
      [] kw = "Abandoned" -> {<<>>}
      [] kw = "Binding" -> {<<W("s"), W("a")>>, <<W("s"), W("f")>>}
      [] kw \in {"Next", "Rewind"} -> {<<Opt("Binding"), W("s"), W("a")>>,
                                       <<Opt("Binding"), W("s"), W("f")>>}
      [] kw = "Set" -> {<<W("x")>>}

\* the argument list of the statement whose terminator is left out
FirstArgs(kw) ==
    CASE kw \in {"Starts", "Ends", "Cltt"} -> <<W("1"), W("1"), W("0")>>
      [] kw = "Hardware" -> <<W("e"), W("m")>>
      [] kw = "Uid" -> <<W("u")>>
      [] kw \in {"ClientHostname", "Hostname"} -> <<W("g")>>
      [] kw = "Abandoned" -> <<>>
      [] kw = "Binding" -> <<W("s"), W("a")>>
      [] kw \in {"Next", "Rewind"} -> <<Opt("Binding"), W("s"), W("a")>>
      [] kw = "Set" -> <<W("x")>>

GoodStmts ==
    {Stmt(ka[1], ka[2], TRUE) : ka \in UNION {{kw} \X GoodArgs(kw) : kw \in LeaseKeyword}}

UnterminatedStmts == {Stmt(kw, FirstArgs(kw), FALSE) : kw \in LeaseKeyword}

OddStmts ==
    {Stmt(kw, <<W("1"), W("x"), W("0")>>, TRUE) : kw \in {"Starts", "Ends", "Cltt"}}
    \cup {Stmt("Hardware", <<W("e")>>, TRUE), Stmt("Hardware", <<Opt("Uid"), W("u")>>, TRUE)}
    \cup {Stmt("", <<t>>, FALSE) : t \in {Endl, W("x"), Paren("{"), Decl("Comment"), Decl("Lease")}}

Stmts == GoodStmts \cup UnterminatedStmts \cup OddStmts

\* statements cut short by the end of the stream
KeywordArgs == UNION {{kw} \X GoodArgs(kw) : kw \in LeaseKeyword}

CutStmts ==
    UNION {{Stmt(ka[1], SubSeq(ka[2], 1, n), FALSE) : n \in 0..Len(ka[2])} : ka \in KeywordArgs}

LeaseHead(addr) == <<Decl("Lease"), addr, Paren("{")>>

Localhost == Word(<<"l","o","c","a","l","h","o","s","t">>)

SimpleItems ==
    {Item(<<Decl("Comment")>>, <<>>, FALSE),
     Item(<<W("x")>>, <<>>, FALSE),
     Item(LeaseHead(Localhost), <<>>, TRUE),
     Item(LeaseHead(W("a")), <<Stmt("Uid", <<W("u")>>, TRUE)>>, TRUE),
     Item(LeaseHead(W("a")), <<Stmt("Abandoned", <<>>, TRUE),
                               Stmt("Hardware", <<W("e"), W("m")>>, TRUE)>>, TRUE),
     Item(LeaseHead(W("b")), <<Stmt("Hostname", <<W("g")>>, TRUE)>>, TRUE),
     Item(LeaseHead(W("a")), <<Stmt("Uid", <<W("u")>>, FALSE)>>, TRUE),
     Item(LeaseHead(W("b")), <<Stmt("Uid", <<W("v")>>, TRUE)>>, FALSE),
     Item(<<Decl("Lease")>>, <<>>, FALSE),
     Item(<<Decl("Lease"), W("a")>>, <<>>, FALSE),
     Item(<<Decl("Lease"), W("a"), Endl>>, <<>>, TRUE),
     Item(LeaseHead(Endl), <<>>, TRUE)}

\* the inputs: one block of up to MaxStmts statements (closed, left open, or
\* cut short by the end of the stream), or up to MaxBlocks simple declarations
IsSource(src) ==
    \/ \E k \in 0..MaxStmts : \E ss \in [1..k -> Stmts] : \E c \in BOOLEAN :
          src = <<Item(LeaseHead(W("a")), ss, c)>>
    \/ \E k \in 0..(MaxStmts - 1) : \E ss \in [1..k -> GoodStmts] : \E t \in CutStmts :
          src = <<Item(LeaseHead(W("a")), Append(ss, t), FALSE)>>
    \/ \E k \in 0..MaxBlocks : src \in [1..k -> SimpleItems]

----------------------------------------------------------------------------
(* parse_config and parse_lease as a state machine over the token cursor.   *)
(* pc = "config": at the head of the loop of parse_config;                  *)
(* pc = "lease":  at the head of the loop of parse_lease;                   *)
(* pc = "close":  parse_lease has returned Ok(()) to parse_config;          *)
(* pc = "done":   parse_config has returned or panicked.                    *)

Running == [kind |-> "Running", leases |-> <<>>, msg |-> NoMsg]

ParserResult(ls) == [kind |-> "Ok", leases |-> ls, msg |-> NoMsg]

Failure(m) == [kind |-> "Err", leases |-> <<>>, msg |-> m]

Panicked(m) == [kind |-> "Panic", leases |-> <<>>, msg |-> m]

push(ls, l) == Append(ls, l)

Leases_new == <<>>

ParserInit ==
    /\ IsSource(source)
    /\ tokens = SourceTokens(source)
    /\ pos = 1
    /\ lease = Lease_new
    /\ leases = Leases_new
    /\ pc = "config"
    /\ result = Running

NoneLease == [some |-> FALSE, v |-> Lease_new]

NoQuery ==
    [op |-> "none", field |-> "", value |-> <<>>, at |-> 0, one |-> NoneLease, many |-> <<>>,
     names |-> {}]

NoVerdict == [asked |-> FALSE, at |-> 0, active |-> FALSE]

\* the log and the lease under query are not in play while a file is parsed
Idle == log = Leases_new /\ query = NoQuery /\ subject = Lease_new /\ verdict = NoVerdict

Init == ParserInit /\ Idle

\* how an arm's outcome moves the parser
Apply(o) ==
    /\ lease' = o.lease
    /\ pos' = o.pos
    /\ pc' = IF o.st = "ok" THEN pc ELSE "done"
    /\ result' = CASE o.st = "ok" -> result
                   [] o.st = "err" -> Failure(o.msg)
                   [] o.st = "panic" -> Panicked(o.msg)
    /\ UNCHANGED <<source, tokens, leases, log, query, subject, verdict>>

AtOpt(k) == pc = "lease" /\ Has(tokens, pos) /\ tokens[pos] = Opt(k)

parse_lease_Starts == AtOpt("Starts") /\ Apply(parse_lease_arm(tokens, lease, pos))

parse_lease_Ends == AtOpt("Ends") /\ Apply(parse_lease_arm(tokens, lease, pos))

parse_lease_Hardware == AtOpt("Hardware") /\ Apply(parse_lease_arm(tokens, lease, pos))

parse_lease_Uid == AtOpt("Uid") /\ Apply(parse_lease_arm(tokens, lease, pos))

parse_lease_ClientHostname == AtOpt("ClientHostname") /\ Apply(parse_lease_arm(tokens, lease, pos))

parse_lease_Hostname == AtOpt("Hostname") /\ Apply(parse_lease_arm(tokens, lease, pos))

parse_lease_Abandoned == AtOpt("Abandoned") /\ Apply(parse_lease_arm(tokens, lease, pos))

parse_lease_Binding == AtOpt("Binding") /\ Apply(parse_lease_arm(tokens, lease, pos))

parse_lease_Next == AtOpt("Next") /\ Apply(parse_lease_arm(tokens, lease, pos))

parse_lease_Rewind == AtOpt("Rewind") /\ Apply(parse_lease_arm(tokens, lease, pos))

parse_lease_Cltt == AtOpt("Cltt") /\ Apply(parse_lease_arm(tokens, lease, pos))

parse_lease_Set == AtOpt("Set") /\ Apply(parse_lease_arm(tokens, lease, pos))

\* mutant: the closing brace is consumed before parse_lease returns
parse_lease_Close_consumes ==
    /\ pc = "lease" /\ Has(tokens, pos) /\ tokens[pos] = Paren("}")
    /\ pc' = "close"
    /\ pos' = Advance(tokens, pos)
    /\ UNCHANGED <<source, tokens, lease, leases, result, log, query, subject, verdict>>

\* LexItem::Paren('}') => return Ok(()): the brace is left in the stream
parse_lease_Close ==
    /\ pc = "lease" /\ Has(tokens, pos) /\ tokens[pos] = Paren("}")
    /\ pc' = "close"
    /\ UNCHANGED <<source, tokens, pos, lease, leases, result, log, query, subject, verdict>>

\* the default arm: any other token at a statement start
parse_lease_Unexpected ==
    /\ pc = "lease" /\ Has(tokens, pos)
    /\ tokens[pos].kind # "Opt" /\ tokens[pos] # Paren("}")
    /\ Apply(parse_lease_arm(tokens, lease, pos))

\* the while loop ends because the stream is exhausted: Ok(()) (line 612)
parse_lease_Exhausted ==
    /\ pc = "lease" /\ ~Has(tokens, pos)
    /\ pc' = "close"
    /\ UNCHANGED <<source, tokens, pos, lease, leases, result, log, query, subject, verdict>>

\* LexItem::Decl(ConfigKeyword::Comment) => {}: nothing is consumed
parse_config_Comment ==
    /\ pc = "config" /\ Has(tokens, pos) /\ tokens[pos] = Decl("Comment")
    /\ UNCHANGED vars

\* mutant: the record of a block is not created afresh, it starts from the
\* record of the block before it
parse_config_Lease_reuses_record ==
    /\ pc = "config" /\ Has(tokens, pos) /\ tokens[pos] = Decl("Lease")
    /\ LET pushed == IF lease # Lease_new THEN push(leases, lease) ELSE leases
           before == IF leases = <<>> THEN Lease_new ELSE leases[Len(leases)]
           p1 == pos + 1
           p2 == pos + 2
       IN IF ~Has(tokens, p1)
          THEN /\ result' = Panicked(Msg("IP address expected", <<>>))
               /\ pc' = "done" /\ pos' = p1 /\ leases' = pushed /\ lease' = Lease_new
          ELSE LET fresh == [before EXCEPT !.ip = LexItem_to_string(tokens[p1])]
               IN IF ~Has(tokens, p2)
                  THEN /\ result' = Panicked(Msg("called Option::unwrap() on a None value", <<>>))
                       /\ pc' = "done" /\ pos' = p2 /\ leases' = pushed /\ lease' = fresh
                  ELSE IF tokens[p2] # Paren("{")
                  THEN /\ result' = Panicked(Msg("assertion failed: left == right",
                                                 LexItem_debug(tokens[p2])))
                       /\ pc' = "done" /\ pos' = p2 /\ leases' = pushed /\ lease' = fresh
                  ELSE /\ result' = result
                       /\ pc' = "lease" /\ pos' = p2 + 1 /\ leases' = pushed /\ lease' = fresh
    /\ UNCHANGED <<source, tokens, log, query, subject, verdict>>

\* the Lease arm up to the call of parse_lease (lines 48-63); at this point
\* `lease` is the outer binding of line 41
parse_config_Lease ==
    /\ pc = "config" /\ Has(tokens, pos) /\ tokens[pos] = Decl("Lease")
    /\ LET pushed == IF lease # Lease_new THEN push(leases, lease) ELSE leases
           p1 == pos + 1
           p2 == pos + 2
       IN IF ~Has(tokens, p1)
          THEN /\ result' = Panicked(Msg("IP address expected", <<>>))
               /\ pc' = "done" /\ pos' = p1 /\ leases' = pushed /\ lease' = Lease_new
          ELSE LET fresh == [Lease_new EXCEPT !.ip = LexItem_to_string(tokens[p1])]
               IN IF ~Has(tokens, p2)
                  THEN /\ result' = Panicked(Msg("called Option::unwrap() on a None value", <<>>))
                       /\ pc' = "done" /\ pos' = p2 /\ leases' = pushed /\ lease' = fresh
                  ELSE IF tokens[p2] # Paren("{")
                  THEN /\ result' = Panicked(Msg("assertion failed: left == right",
                                                 LexItem_debug(tokens[p2])))
                       /\ pc' = "done" /\ pos' = p2 /\ leases' = pushed /\ lease' = fresh
                  ELSE /\ result' = result
                       /\ pc' = "lease" /\ pos' = p2 + 1 /\ leases' = pushed /\ lease' = fresh
    /\ UNCHANGED <<source, tokens, log, query, subject, verdict>>

\* mutant: one `lease` binding for the whole of parse_config, so the record
\* of the last block is still there when the next declaration is met
parse_config_RightBrace_one_binding ==
    /\ pc = "close"
    /\ IF ~Has(tokens, pos) \/ tokens[pos] # Paren("}")
       THEN /\ result' = Failure(Msg("Expected end of section with '}', got",
                                     peek_debug(tokens, pos)))
            /\ pc' = "done"
            /\ UNCHANGED <<pos, lease, leases>>
       ELSE /\ leases' = push(leases, lease)
            /\ pos' = Advance(tokens, pos)
            /\ lease' = lease
            /\ pc' = "config"
            /\ result' = result
    /\ UNCHANGED <<source, tokens, log, query, subject, verdict>>

\* mutant: the end of the stream closes the block like a closing brace
parse_config_RightBrace_eof_closes ==
    /\ pc = "close"
    /\ IF Has(tokens, pos) /\ tokens[pos] # Paren("}")
       THEN /\ result' = Failure(Msg("Expected end of section with '}', got",
                                     peek_debug(tokens, pos)))
            /\ pc' = "done"
            /\ UNCHANGED <<pos, lease, leases>>
       ELSE /\ leases' = push(leases, lease)
            /\ pos' = Advance(tokens, pos)
            /\ lease' = Lease_new
            /\ pc' = "config"
            /\ result' = result
    /\ UNCHANGED <<source, tokens, log, query, subject, verdict>>

\* after parse_lease returned Ok(()): lines 66-75; the inner `lease` goes out
\* of scope, the name is the outer binding again
parse_config_RightBrace ==
    /\ pc = "close"
    /\ IF ~Has(tokens, pos) \/ tokens[pos] # Paren("}")
       THEN /\ result' = Failure(Msg("Expected end of section with '}', got",
                                     peek_debug(tokens, pos)))
            /\ pc' = "done"
            /\ UNCHANGED <<pos, lease, leases>>
       ELSE /\ leases' = push(leases, lease)
            /\ pos' = Advance(tokens, pos)
            /\ lease' = Lease_new
            /\ pc' = "config"
            /\ result' = result
    /\ UNCHANGED <<source, tokens, log, query, subject, verdict>>

\* mutant: the declarations parsed so far are returned at an unknown token
parse_config_Unexpected_partial_log ==
    /\ pc = "config" /\ Has(tokens, pos)
    /\ tokens[pos] # Decl("Comment") /\ tokens[pos] # Decl("Lease")
    /\ result' = ParserResult(leases)
    /\ pc' = "done"
    /\ UNCHANGED <<source, tokens, pos, lease, leases, log, query, subject, verdict>>

\* any other token at the top level
parse_config_Unexpected ==
    /\ pc = "config" /\ Has(tokens, pos)
    /\ tokens[pos] # Decl("Comment") /\ tokens[pos] # Decl("Lease")
    /\ result' = Failure(Msg("Unexpected", peek_debug(tokens, pos)))
    /\ pc' = "done"
    /\ UNCHANGED <<source, tokens, pos, lease, leases, log, query, subject, verdict>>

\* the loop ends: Ok(ParserResult { leases })
parse_config_Return ==
    /\ pc = "config" /\ ~Has(tokens, pos)
    /\ result' = ParserResult(leases)
    /\ pc' = "done"
    /\ UNCHANGED <<source, tokens, pos, lease, leases, log, query, subject, verdict>>

Next ==
    \/ parse_lease_Starts
    \/ parse_lease_Ends
    \/ parse_lease_Hardware
    \/ parse_lease_Uid
    \/ parse_lease_ClientHostname
    \/ parse_lease_Hostname
    \/ parse_lease_Abandoned
    \/ parse_lease_Binding
    \/ parse_lease_Next
    \/ parse_lease_Rewind
    \/ parse_lease_Cltt
    \/ parse_lease_Set
    \/ parse_lease_Close
    \/ parse_lease_Unexpected
    \/ parse_lease_Exhausted
    \/ parse_config_Comment
    \/ parse_config_Lease
    \/ parse_config_RightBrace
    \/ parse_config_Unexpected
    \/ parse_config_Return

Spec == Init /\ [][Next]_vars

\* the parser is a sequential program: it takes its next step whenever it has one
FairSpec == Spec /\ WF_vars(Next)

----------------------------------------------------------------------------
(* Lease::is_active_at on one lease *)

Instants == 0..MaxInstant

OptInstants == {NoneDate} \cup {Some(t) : t \in Instants}

ParserIdle ==
    /\ source = <<>> /\ tokens = <<>> /\ pos = 1 /\ lease = Lease_new
    /\ leases = Leases_new /\ pc = "done" /\ result = Running

LeaseInit ==
    /\ ParserIdle
    /\ log = Leases_new /\ query = NoQuery
    /\ \E s \in OptInstants, e \in OptInstants :
          subject = [Lease_new EXCEPT !.dates = [starts |-> s, ends |-> e]]
    /\ verdict = NoVerdict

Lease_is_active_at ==
    /\ \E when \in Instants :
          verdict' = [asked |-> TRUE, at |-> when, active |-> is_active_at(subject, when)]
    /\ UNCHANGED <<parserVars, logVars, subject>>

LeaseNext == Lease_is_active_at

LeaseSpec == LeaseInit /\ [][LeaseNext]_vars

----------------------------------------------------------------------------
(* Leases: the log and its lookups *)

LeasesField == {"ClientHostname", "Hostname", "LeasedIP", "MAC"}

value_getter(field, l) ==
    CASE field = "ClientHostname" -> l.client_hostname
      [] field = "Hostname" -> l.hostname
      [] field = "LeasedIP" -> Some(l.ip)
      [] field = "MAC" -> IF l.hardware.some THEN Some(l.hardware.v.mac) ELSE NoneStr

reverse(ls) == [i \in 1..Len(ls) |-> ls[Len(ls) + 1 - i]]

all(ls) == ls

\* mutant: the abandoned flag is not looked at
active_by_keeps_abandoned(ls, field, value, active_at) ==
    LET r == reverse(ls)
        RECURSIVE loop(_)
        loop(i) ==
            IF i > Len(r) THEN NoneLease
            ELSE IF is_active_at(r[i], active_at)
                 THEN LET val == value_getter(field, r[i])
                      IN IF val.some /\ val.v = value THEN Some(r[i]) ELSE loop(i + 1)
                 ELSE loop(i + 1)
    IN loop(1)

active_by(ls, field, value, active_at) ==
    LET r == reverse(ls)
        RECURSIVE loop(_)
        loop(i) ==
            IF i > Len(r) THEN NoneLease
            ELSE IF is_active_at(r[i], active_at) /\ ~r[i].abandoned
                 THEN LET val == value_getter(field, r[i])
                      IN IF val.some /\ val.v = value THEN Some(r[i]) ELSE loop(i + 1)
                 ELSE loop(i + 1)
    IN loop(1)

\* mutant: the log is scanned from its start
by_leased_forward(ls, ip) ==
    LET RECURSIVE loop(_)
        loop(i) ==
            IF i > Len(ls) THEN NoneLease
            ELSE IF ls[i].ip = ip THEN Some(ls[i]) ELSE loop(i + 1)
    IN loop(1)

by_leased(ls, ip) ==
    LET r == reverse(ls)
        RECURSIVE loop(_)
        loop(i) ==
            IF i > Len(r) THEN NoneLease
            ELSE IF r[i].ip = ip THEN Some(r[i]) ELSE loop(i + 1)
    IN loop(1)

by_leased_all(ls, ip) ==
    LET RECURSIVE loop(_, _)
        loop(i, res) ==
            IF i > Len(ls) THEN res
            ELSE IF ls[i].ip = ip THEN loop(i + 1, Append(res, ls[i])) ELSE loop(i + 1, res)
    IN loop(1, <<>>)

by_mac(ls, mac) ==
    LET r == reverse(ls)
        RECURSIVE loop(_)
        loop(i) ==
            IF i > Len(r) THEN NoneLease
            ELSE IF r[i].hardware.some /\ r[i].hardware.v.mac = mac THEN Some(r[i])
                 ELSE loop(i + 1)
    IN loop(1)

by_mac_all(ls, mac) ==
    LET RECURSIVE loop(_, _)
        loop(i, res) ==
            IF i > Len(ls) THEN res
            ELSE IF ls[i].hardware.some /\ ls[i].hardware.v.mac = mac
                 THEN loop(i + 1, Append(res, ls[i]))
                 ELSE loop(i + 1, res)
    IN loop(1, <<>>)

hostnames(ls) ==
    LET RECURSIVE loop(_, _)
        loop(i, res) ==
            IF i > Len(ls) THEN res
            ELSE IF ls[i].hostname.some THEN loop(i + 1, res \cup {ls[i].hostname.v})
                 ELSE loop(i + 1, res)
    IN loop(1, {})

client_hostnames(ls) ==
    LET RECURSIVE loop(_, _)
        loop(i, res) ==
            IF i > Len(ls) THEN res
            ELSE IF ls[i].client_hostname.some
                 THEN loop(i + 1, res \cup {ls[i].client_hostname.v})
                 ELSE loop(i + 1, res)
    IN loop(1, {})

\* the leases a caller pushes: one of two addresses; at most one of MAC, host
\* name and client host name; and either no window, no window and abandoned,
\* or the window [1, 2]; and two leases that carry both names, one of them
\* the empty text (as `hostname "";` is stored after unquoting)
Names == {<<"a">>, <<"b">>}

LogLeases ==
    {[Lease_new EXCEPT !.ip = ip, !.hardware = id[1], !.hostname = id[2],
                       !.client_hostname = id[3], !.abandoned = st[1], !.dates = st[2]] :
        ip \in Names,
        id \in {<<NoneHw, NoneStr, NoneStr>>,
                <<Some([h_type |-> <<"e">>, mac |-> <<"a">>]), NoneStr, NoneStr>>,
                <<NoneHw, Some(<<"a">>), NoneStr>>,
                <<NoneHw, NoneStr, Some(<<"a">>)>>},
        st \in {<<FALSE, [starts |-> NoneDate, ends |-> NoneDate]>>,
                <<TRUE, [starts |-> NoneDate, ends |-> NoneDate]>>,
                <<FALSE, [starts |-> Some(1), ends |-> Some(2)]>>}}
    \cup {[Lease_new EXCEPT !.hostname = Some(<<>>), !.client_hostname = Some(<<"b">>)],
          [Lease_new EXCEPT !.hostname = Some(<<"b">>), !.client_hostname = Some(<<>>)]}

LogInit ==
    /\ ParserIdle
    /\ subject = Lease_new /\ verdict = NoVerdict
    /\ log = Leases_new
    /\ query = NoQuery

\* one lookup is recorded per log: a lookup leaves the log as it is, so the
\* next one would start from the same log
Leases_push ==
    /\ Len(log) < MaxLog
    /\ \E l \in LogLeases : log' = push(log, l)
    /\ query' = NoQuery
    /\ UNCHANGED <<parserVars, leaseVars>>

Leases_active_by ==
    /\ query = NoQuery
    /\ \E field \in LeasesField, value \in Names, when \in Instants :
          query' = [NoQuery EXCEPT !.op = "active_by", !.field = field, !.value = value,
                                   !.at = when, !.one = active_by(log, field, value, when)]
    /\ UNCHANGED <<parserVars, leaseVars, log>>

Leases_by_leased ==
    /\ query = NoQuery
    /\ \E ip \in Names :
          query' = [NoQuery EXCEPT !.op = "by_leased", !.value = ip, !.one = by_leased(log, ip)]
    /\ UNCHANGED <<parserVars, leaseVars, log>>

Leases_by_leased_all ==
    /\ query = NoQuery
    /\ \E ip \in Names :
          query' = [NoQuery EXCEPT !.op = "by_leased_all", !.value = ip,
                                   !.many = by_leased_all(log, ip)]
    /\ UNCHANGED <<parserVars, leaseVars, log>>

Leases_by_mac ==
    /\ query = NoQuery
    /\ \E mac \in Names :
          query' = [NoQuery EXCEPT !.op = "by_mac", !.value = mac, !.one = by_mac(log, mac)]
    /\ UNCHANGED <<parserVars, leaseVars, log>>

Leases_by_mac_all ==
    /\ query = NoQuery
    /\ \E mac \in Names :
          query' = [NoQuery EXCEPT !.op = "by_mac_all", !.value = mac,
                                   !.many = by_mac_all(log, mac)]
    /\ UNCHANGED <<parserVars, leaseVars, log>>

Leases_hostnames ==
    /\ query = NoQuery
    /\ query' = [NoQuery EXCEPT !.op = "hostnames", !.names = hostnames(log)]
    /\ UNCHANGED <<parserVars, leaseVars, log>>

Leases_client_hostnames ==
    /\ query = NoQuery
    /\ query' = [NoQuery EXCEPT !.op = "client_hostnames", !.names = client_hostnames(log)]
    /\ UNCHANGED <<parserVars, leaseVars, log>>

LogNext ==
    \/ Leases_push
    \/ Leases_active_by
    \/ Leases_by_leased
    \/ Leases_by_leased_all
    \/ Leases_by_mac
    \/ Leases_by_mac_all
    \/ Leases_hostnames
    \/ Leases_client_hostnames

LogSpec == LogInit /\ [][LogNext]_vars

----------------------------------------------------------------------------
(* What the source text means, read off the declarations and not off the    *)
(* parser: the reference the claims below compare the parser with.          *)

Max(S) == CHOOSE x \in S : \A y \in S : y <= x

IsLeaseBlock(it) == it.head # <<>> /\ it.head[1] = Decl("Lease")

IsStray(it) == Len(it.head) = 1 /\ it.head[1] \notin {Decl("Lease"), Decl("Comment")}

LeaseBlocks(src) == SelectSeq(src, IsLeaseBlock)

WellFormedBlock(it) ==
    /\ Len(it.head) = 3 /\ it.head[2].kind = "Word" /\ it.head = LeaseHead(it.head[2])
    /\ it.closed
    /\ \A i \in 1..Len(it.stmts) : it.stmts[i] \in GoodStmts

Occurrences(stmts, kw) == {i \in 1..Len(stmts) : stmts[i].kw = kw}

LastArgs(stmts, kw) == stmts[Max(Occurrences(stmts, kw))].args

TextField(stmts, kw, n) ==
    IF Occurrences(stmts, kw) = {} THEN NoneStr ELSE Some(LastArgs(stmts, kw)[n].v)

WithoutQuotes(text) == SelectSeq(text, LAMBDA c : c # "\"")

NameField(stmts, kw) ==
    IF Occurrences(stmts, kw) = {} THEN NoneStr
    ELSE Some(WithoutQuotes(LastArgs(stmts, kw)[1].v))

DateField(stmts, kw) ==
    IF Occurrences(stmts, kw) = {} THEN NoneDate
    ELSE LET a == LastArgs(stmts, kw) IN Some(Date_from(a[1].v, a[2].v, a[3].v).v)

\* the record a well-formed block stands for
ExpectedRecord(it) ==
    [ip |-> it.head[2].v,
     dates |-> [starts |-> DateField(it.stmts, "Starts"), ends |-> DateField(it.stmts, "Ends")],
     hardware |-> IF Occurrences(it.stmts, "Hardware") = {} THEN NoneHw
                  ELSE Some([h_type |-> LastArgs(it.stmts, "Hardware")[1].v,
                             mac |-> LastArgs(it.stmts, "Hardware")[2].v]),
     uid |-> TextField(it.stmts, "Uid", 1),
     cltt |-> DateField(it.stmts, "Cltt"),
     client_hostname |-> NameField(it.stmts, "ClientHostname"),
     hostname |-> NameField(it.stmts, "Hostname"),
     abandoned |-> Occurrences(it.stmts, "Abandoned") # {},
     binding |-> TextField(it.stmts, "Binding", 2),
     next_binding |-> TextField(it.stmts, "Next", 3),
     rewind_binding |-> TextField(it.stmts, "Rewind", 3)]

----------------------------------------------------------------------------
(* Claims *)

\* C1: for every finite token stream parse_config terminates (with a lease
\* log or a failure); a comment token at the top level is skipped by
\* consuming one token, so the parser never loops on it.
C1_Terminates == <>(pc = "done")

\* C2: active_by returns the record with the highest insertion index among
\* those whose selected field is present and equals the value, that are not
\* abandoned and that are active at the instant; it returns nothing exactly
\* when there is no such record.
FieldIs(l, field, value) ==
    CASE field = "ClientHostname" -> l.client_hostname.some /\ l.client_hostname.v = value
      [] field = "Hostname" -> l.hostname.some /\ l.hostname.v = value
      [] field = "LeasedIP" -> l.ip = value
      [] field = "MAC" -> l.hardware.some /\ l.hardware.v.mac = value

InWindow(l, t) ==
    /\ l.dates.starts.some => l.dates.starts.v <= t
    /\ l.dates.ends.some => t <= l.dates.ends.v

Qualifying(ls, field, value, t) ==
    {i \in 1..Len(ls) : FieldIs(ls[i], field, value) /\ ~ls[i].abandoned /\ InWindow(ls[i], t)}

C2_ActiveByNewestQualifying ==
    query.op = "active_by" =>
        LET Q == Qualifying(log, query.field, query.value, query.at)
        IN IF Q = {} THEN ~query.one.some
           ELSE query.one.some /\ query.one.v = log[Max(Q)]

\* an abandoned newest match inside its window is passed over for an older one
C2_Witness ==
    /\ query.op = "active_by" /\ Len(log) = 2
    /\ log[2].abandoned /\ FieldIs(log[2], query.field, query.value)
    /\ InWindow(log[2], query.at)
    /\ query.one.some /\ query.one.v = log[1] /\ log[1] # log[2]

\* C3: by_leased / by_mac return the matching record with the highest
\* insertion index, which is the last element of by_leased_all / by_mac_all,
\* and nothing exactly when that list is empty; the all-matches lookups return
\* exactly the matching records in log order; a record without hardware
\* never matches a MAC lookup.
HasMac(l, mac) == l.hardware.some /\ l.hardware.v.mac = mac

C3_ReverseScanPriority ==
    /\ query.op = "by_leased" =>
          LET M == {i \in 1..Len(log) : log[i].ip = query.value}
              every == by_leased_all(log, query.value)
          IN /\ query.one.some <=> M # {}
             /\ query.one.some <=> every # <<>>
             /\ M # {} => query.one.v = log[Max(M)] /\ query.one.v = every[Len(every)]
    /\ query.op = "by_leased_all" =>
          query.many = SelectSeq(log, LAMBDA l : l.ip = query.value)
    /\ query.op = "by_mac" =>
          LET M == {i \in 1..Len(log) : HasMac(log[i], query.value)}
              every == by_mac_all(log, query.value)
          IN /\ query.one.some <=> M # {}
             /\ query.one.some <=> every # <<>>
             /\ M # {} => query.one.v = log[Max(M)] /\ query.one.v = every[Len(every)]
             /\ query.one.some => query.one.v.hardware.some
    /\ query.op = "by_mac_all" =>
          /\ query.many = SelectSeq(log, LAMBDA l : HasMac(l, query.value))
          /\ \A i \in 1..Len(query.many) : query.many[i].hardware.some

\* two different records with the queried address: the later one is returned
C3_Witness ==
    /\ query.op = "by_leased" /\ Len(log) = 2
    /\ log[1].ip = query.value /\ log[2].ip = query.value /\ log[1] # log[2]
    /\ query.one.some /\ query.one.v = log[2]

\* C4: is_active_at(T) is true iff neither (start present and > T) nor (end
\* present and < T): both boundaries are inclusive, a record with no bound
\* is active at every instant, and one whose start is after its end at none.
C4_ActiveAt ==
    verdict.asked =>
        LET s == subject.dates.starts
            e == subject.dates.ends
            t == verdict.at
        IN /\ verdict.active <=> (~(s.some /\ s.v > t) /\ ~(e.some /\ e.v < t))
           /\ (s.some /\ e.some /\ s.v <= t /\ t <= e.v) => verdict.active
           /\ (s.some /\ e.some /\ (t < s.v \/ t > e.v)) => ~verdict.active
           /\ (~s.some /\ ~e.some) => verdict.active
           /\ (s.some /\ e.some /\ s.v > e.v) => ~verdict.active

\* active on the start boundary of a proper window
C4_Witness ==
    /\ verdict.asked /\ verdict.active
    /\ subject.dates.starts.some /\ subject.dates.ends.some
    /\ subject.dates.starts.v = verdict.at /\ verdict.at < subject.dates.ends.v

\* C5: after a successful parse the log has one record per lease block of the
\* source, in source order, each with the address of its block and, for a
\* well-formed block, exactly the fields its statements give (a block that
\* leaves every field at its default included).
C5_OneRecordPerBlock ==
    result.kind = "Ok" =>
        LET blocks == LeaseBlocks(source)
        IN /\ Len(result.leases) = Len(blocks)
           /\ \A i \in 1..Len(blocks) :
                 /\ Len(blocks[i].head) >= 2
                 /\ result.leases[i].ip = LexItem_to_string(blocks[i].head[2])
                 /\ WellFormedBlock(blocks[i]) => result.leases[i] = ExpectedRecord(blocks[i])

\* a block with fields, then a block equal to the default record
C5_Witness ==
    /\ result.kind = "Ok" /\ Len(result.leases) = 3
    /\ result.leases[1] # Lease_new /\ result.leases[2] = Lease_new
    /\ result.leases[3] # Lease_new

\* C6: every structural and end-of-input violation is a returned failure
\* value, never an abnormal abort.
C6_NeverAborts == pc = "done" => result.kind \in {"Ok", "Err"}

\* C7: a block that is well formed but for one statement whose terminator is
\* left out does not parse: no log is returned, whatever follows the
\* unterminated statement.
OneTerminatorMissing(it) ==
    /\ Len(it.head) = 3 /\ it.head = LeaseHead(it.head[2]) /\ it.head[2].kind = "Word"
    /\ it.closed
    /\ \E i \in 1..Len(it.stmts) :
          /\ it.stmts[i] \in UnterminatedStmts
          /\ \A j \in 1..Len(it.stmts) : j # i => it.stmts[j] \in GoodStmts

C7_MissingTerminatorFails ==
    (\E i \in 1..Len(source) : OneTerminatorMissing(source[i])) => result.kind # "Ok"

\* C8: a top-level token that is neither a lease nor a comment declaration
\* makes the parse return a failure naming that token and no log, however
\* many well-formed blocks were parsed before it; no failure comes with a log.
C8_WholeParseFailure ==
    pc = "done" =>
        /\ \A i \in 1..Len(source) :
              (IsStray(source[i]) /\ \A j \in 1..(i - 1) : WellFormedBlock(source[j])) =>
                  /\ result = Failure(Msg("Unexpected",
                                <<"Some(">> \o LexItem_debug(source[i].head[1]) \o <<")">>))
                  /\ Len(leases) = i - 1
        /\ result.kind # "Ok" => result.leases = <<>>

\* two blocks were parsed into the local log when the stray token is met
C8_Witness ==
    /\ pc = "done" /\ result.kind = "Err" /\ result.msg.text = "Unexpected"
    /\ Len(leases) = 2 /\ result.leases = <<>>

\* C9: for starts, ends and cltt, the statement with a timezone token before
\* the terminator and the same statement without it both parse, store the
\* same instant in the field of the keyword and nothing else, and stop right
\* after the terminator.  (C9_EveryTriple: for every triple of literals;
\* C9_AcceptedTriples: for the triples the instant constructor accepts.)
DateKeywords == {"Starts", "Ends", "Cltt"}

AtDateStmt ==
    /\ pc = "lease" /\ Has(tokens, pos + 4)
    /\ tokens[pos].kind = "Opt" /\ tokens[pos].k \in DateKeywords
    /\ \A i \in 1..3 : tokens[pos + i].kind = "Word"
    /\ \/ tokens[pos + 4] = Endl
       \/ tokens[pos + 4].kind = "Word" /\ Has(tokens, pos + 5) /\ tokens[pos + 5] = Endl

WithZone ==
    IF tokens[pos + 4] = Endl
    THEN SubSeq(tokens, 1, pos + 3) \o <<W("Z")>> \o SubSeq(tokens, pos + 4, Len(tokens))
    ELSE tokens

WithoutZone ==
    IF tokens[pos + 4] = Endl THEN tokens
    ELSE SubSeq(tokens, 1, pos + 3) \o SubSeq(tokens, pos + 5, Len(tokens))

TripleInstant == Date_from(tokens[pos + 1].v, tokens[pos + 2].v, tokens[pos + 3].v)

WithInstant(l, kw, t) ==
    CASE kw = "Starts" -> [l EXCEPT !.dates.starts = Some(t)]
      [] kw = "Ends" -> [l EXCEPT !.dates.ends = Some(t)]
      [] kw = "Cltt" -> [l EXCEPT !.cltt = Some(t)]

ZoneMakesNoDifference ==
    LET with == parse_lease_arm(WithZone, lease, pos)
        without == parse_lease_arm(WithoutZone, lease, pos)
    IN /\ with.st = "ok" /\ without.st = "ok"
       /\ with.lease = WithInstant(lease, tokens[pos].k, TripleInstant.v)
       /\ without.lease = with.lease
       /\ with.pos = pos + 6 /\ WithZone[with.pos - 1] = Endl
       /\ without.pos = pos + 5 /\ WithoutZone[without.pos - 1] = Endl

C9_EveryTriple == AtDateStmt => ZoneMakesNoDifference

C9_AcceptedTriples == (AtDateStmt /\ TripleInstant.ok) => ZoneMakesNoDifference

\* an ends statement with a timezone has just been parsed
C9_Witness ==
    /\ pc = "lease" /\ pos > 6
    /\ tokens[pos - 6] = Opt("Ends") /\ tokens[pos - 2] = W("Z") /\ tokens[pos - 1] = Endl
    /\ lease.dates.ends = Some(Date_from(tokens[pos - 5].v, tokens[pos - 4].v, tokens[pos - 3].v).v)
    /\ ~lease.dates.starts.some /\ ~lease.cltt.some

\* C10: the hardware descriptor is set from two literal tokens and the
\* terminator only, so no record of a successful parse has a hardware type
\* or MAC that is the text of a terminator, brace or keyword token.
NonLiteralTexts ==
    {LexItem_to_string(t) :
        t \in {Endl, Paren("{"), Paren("}")} \cup {Opt(k) : k \in LeaseKeyword}
              \cup {Decl(k) : k \in ConfigKeyword}}

C10_HardwareFromLiterals ==
    result.kind = "Ok" =>
        \A i \in 1..Len(result.leases) :
            result.leases[i].hardware.some =>
                /\ result.leases[i].hardware.v.h_type \notin NonLiteralTexts
                /\ result.leases[i].hardware.v.mac \notin NonLiteralTexts

\* the record the parse returned for the i-th lease block of the source
BlockRecord(i) == result.leases[i]

ParsedBlocks ==
    IF result.kind = "Ok" /\ Len(result.leases) = Len(LeaseBlocks(source))
    THEN 1..Len(result.leases) ELSE {}

\* C11: for any lease block that parses successfully, the abandoned flag of
\* its record is true if the block contains an abandoned statement, wherever
\* it stands and whatever statements precede or follow it, and false if the
\* block contains none.
C11_AbandonedFlag ==
    \A i \in ParsedBlocks :
        BlockRecord(i).abandoned <=> Occurrences(LeaseBlocks(source)[i].stmts, "Abandoned") # {}

\* C12: hostnames() is exactly the set of the non-empty server hostnames of
\* the records of the log and client_hostnames() the set of the non-empty
\* client hostnames; neither contains the empty text, and neither depends on
\* the order of the log.
NonEmptyNames(ls, Get(_)) ==
    {Get(ls[i]).v : i \in {j \in 1..Len(ls) : Get(ls[j]).some /\ Get(ls[j]).v # <<>>}}

ServerName(l) == l.hostname

ClientName(l) == l.client_hostname

C12_NonEmptyNames ==
    /\ query.op = "hostnames" =>
          /\ query.names = NonEmptyNames(log, ServerName)
          /\ <<>> \notin query.names
          /\ query.names = hostnames(reverse(log))
    /\ query.op = "client_hostnames" =>
          /\ query.names = NonEmptyNames(log, ClientName)
          /\ <<>> \notin query.names
          /\ query.names = client_hostnames(reverse(log))

\* C13: every record of a log returned by a successful parse has as address
\* the non-empty text of the literal token that follows its lease keyword;
\* a terminator, brace or keyword token after the lease keyword makes the
\* parse fail, so its text never becomes a logged address.
C13_AddressFromLiteral ==
    result.kind = "Ok" =>
        /\ Len(result.leases) = Len(LeaseBlocks(source))
        /\ \A i \in 1..Len(result.leases) :
              LET head == LeaseBlocks(source)[i].head
              IN /\ Len(head) >= 2 /\ head[2].kind = "Word"
                 /\ result.leases[i].ip = head[2].v
                 /\ result.leases[i].ip # <<>>
                 /\ result.leases[i].ip \notin NonLiteralTexts

\* C14: for client-hostname and hostname statements, the literal wrapped in
\* double quotes stores the same value as the literal itself and as the
\* literal without its quotes; the stored value is the literal with every
\* double-quote character removed, so it contains no double quote and
\* unquoting it again changes nothing.
NameKeywords == {"ClientHostname", "Hostname"}

AtNameStmt ==
    /\ pc = "lease" /\ Has(tokens, pos + 2)
    /\ tokens[pos].kind = "Opt" /\ tokens[pos].k \in NameKeywords
    /\ tokens[pos + 1].kind = "Word" /\ tokens[pos + 2] = Endl

WithLiteral(text) == [tokens EXCEPT ![pos + 1] = Word(text)]

Wrapped(text) == <<"\"">> \o text \o <<"\"">>

StoredName(l) == IF tokens[pos].k = "Hostname" THEN l.hostname ELSE l.client_hostname

WithName(l, kw, text) ==
    IF kw = "Hostname" THEN [l EXCEPT !.hostname = Some(text)]
    ELSE [l EXCEPT !.client_hostname = Some(text)]

C14_Unquoting ==
    AtNameStmt =>
        LET literal == tokens[pos + 1].v
            asis == parse_lease_arm(tokens, lease, pos)
            wrapped == parse_lease_arm(WithLiteral(Wrapped(literal)), lease, pos)
            bare == parse_lease_arm(WithLiteral(WithoutQuotes(literal)), lease, pos)
        IN /\ asis.st = "ok" /\ wrapped.st = "ok" /\ bare.st = "ok"
           /\ asis.lease = WithName(lease, tokens[pos].k, WithoutQuotes(literal))
           /\ wrapped.lease = asis.lease /\ bare.lease = asis.lease
           /\ \A i \in 1..Len(StoredName(asis.lease).v) : StoredName(asis.lease).v[i] # "\""
           /\ unquote_hostname(StoredName(asis.lease).v) = StoredName(asis.lease).v

\* a hostname statement whose literal has a quote in its middle has been parsed
C14_Witness ==
    /\ pc = "lease" /\ pos > 3
    /\ tokens[pos - 3] = Opt("Hostname") /\ tokens[pos - 2] = Word(<<"g", "\"", "h">>)
    /\ tokens[pos - 1] = Endl
    /\ lease.hostname = Some(<<"g", "h">>)

\* C15: a record is appended to the log only when its block is closed: if
\* the token stream ends inside a lease block, after the open brace or after
\* a complete statement, parse_lease returns success on running out of
\* tokens but the parse returns a failure and no log, and the record of the
\* open block is never appended.
EndsInsideBlock(src) ==
    /\ src # <<>>
    /\ \A j \in 1..(Len(src) - 1) : WellFormedBlock(src[j])
    /\ LET it == src[Len(src)]
       IN /\ Len(it.head) = 3 /\ it.head = LeaseHead(it.head[2])
          /\ ~it.closed
          /\ \A i \in 1..Len(it.stmts) : it.stmts[i] \in GoodStmts

ClosingBracesConsumed == Cardinality({i \in 1..(pos - 1) : i <= Len(tokens) /\ tokens[i] = Paren("}")})

C15_UnclosedBlockFails ==
    /\ Len(leases) <= ClosingBracesConsumed
    /\ (EndsInsideBlock(source) /\ pc = "close" /\ ~Has(tokens, pos)) =>
          /\ result = Running
          /\ Len(leases) = Len(source) - 1
    /\ (EndsInsideBlock(source) /\ pc = "done") =>
          /\ result = Failure(Msg("Expected end of section with '}', got", <<"None">>))
          /\ result.leases = <<>>
          /\ Len(leases) = Len(source) - 1

\* two blocks were parsed, the third was left open after a complete statement
C15_Witness ==
    /\ pc = "done" /\ EndsInsideBlock(source) /\ Len(source) = 3
    /\ source[3].stmts # <<>>
    /\ result.kind = "Err" /\ Len(leases) = 2 /\ ~Has(tokens, pos)

\* C16: parse_lease never consumes the block-closing token: when it returns
\* success on a closing brace at a statement start, the cursor still stands
\* on that brace (the return moves neither the cursor nor the record), no
\* closing brace has been consumed for the block, and parse_config then
\* appends the record and consumes that brace, exactly one token, before it
\* looks at the next declaration.
ReturnedOnBrace == pc = "close" /\ Has(tokens, pos)

C16_BraceLeftToCaller ==
    /\ [](ReturnedOnBrace =>
             tokens[pos] = Paren("}") /\ ClosingBracesConsumed = Len(leases))
    /\ [][(pc = "lease" /\ pc' = "close") => (pos' = pos /\ lease' = lease)]_vars
    /\ [][(pc = "close" /\ pc' = "config") =>
             /\ tokens[pos] = Paren("}")
             /\ pos' = pos + 1
             /\ leases' = Append(leases, lease)
             /\ ClosingBracesConsumed' = Len(leases')]_vars

\* the brace of the second block has been consumed and a declaration follows
C16_Witness ==
    /\ pc = "config" /\ pos > 1 /\ tokens[pos - 1] = Paren("}")
    /\ Len(leases) = 2 /\ Has(tokens, pos) /\ tokens[pos] = Decl("Lease")

\* C17: if the instant constructor fails on the weekday/date/time triple of
\* a starts, ends or cltt statement, parse_lease returns a failure and sets
\* no field (the field of the keyword keeps what earlier statements gave
\* it), and the top-level parse returns a failure and no log.
ConstructorCalled ==
    /\ pc = "lease" /\ Has(tokens, pos + 4)
    /\ tokens[pos].kind = "Opt" /\ tokens[pos].k \in DateKeywords
    /\ \/ tokens[pos + 4] = Endl
       \/ LexItem_to_string(tokens[pos + 4]) # <<";">> /\ Has(tokens, pos + 5)
          /\ tokens[pos + 5] = Endl

ConstructorFails ==
    ~Date_from(LexItem_to_string(tokens[pos + 1]), LexItem_to_string(tokens[pos + 2]),
               LexItem_to_string(tokens[pos + 3])).ok

\* the index of the first statement of a block whose triple is rejected, 0 if none
FirstRejected(stmts) ==
    LET bad == {i \in 1..Len(stmts) :
                   /\ stmts[i].kw \in DateKeywords /\ stmts[i].term /\ Len(stmts[i].args) = 3
                   /\ \A n \in 1..3 : stmts[i].args[n].kind = "Word"
                   /\ ~Date_from(stmts[i].args[1].v, stmts[i].args[2].v, stmts[i].args[3].v).ok}
    IN IF bad = {} THEN 0 ELSE CHOOSE i \in bad : \A j \in bad : i <= j

RejectedInBlock(src) ==
    /\ Len(src) = 1 /\ src[1].head = LeaseHead(W("a"))
    /\ FirstRejected(src[1].stmts) > 0
    /\ \A j \in 1..(FirstRejected(src[1].stmts) - 1) : src[1].stmts[j] \in GoodStmts

C17_ConstructorFailure ==
    /\ (ConstructorCalled /\ ConstructorFails) =>
          LET o == parse_lease_arm(tokens, lease, pos)
          IN o.st = "err" /\ o.lease = lease
    /\ (pc = "done" /\ RejectedInBlock(source)) =>
          /\ result.kind = "Err" /\ result.msg.text = "Date::from failed"
          /\ result.leases = <<>>
          /\ leases = <<>>
          /\ lease = ExpectedRecord(Item(source[1].head,
                        SubSeq(source[1].stmts, 1, FirstRejected(source[1].stmts) - 1), TRUE))

\* an ends statement set the field, a second one with a rejected triple failed
C17_Witness ==
    /\ pc = "done" /\ RejectedInBlock(source) /\ FirstRejected(source[1].stmts) = 2
    /\ source[1].stmts[1].kw = "Ends" /\ source[1].stmts[2].kw = "Ends"
    /\ result.kind = "Err" /\ lease.dates.ends.some

\* C18: within one lease block a repeated statement overwrites: in the record
\* of a block that parsed, each of start, end, cltt, hardware, uid, client
\* hostname, hostname, binding, next binding and rewind binding is the value
\* given by the last statement of its keyword in the block, and is absent if
\* the block has no statement of that keyword.
ArgCounts(kw) == {Len(a) : a \in GoodArgs(kw)}

\* every statement has a keyword and as many arguments as its keyword takes
ShapedBlock(it) ==
    \A i \in 1..Len(it.stmts) :
        it.stmts[i].kw \in LeaseKeyword /\ Len(it.stmts[i].args) \in ArgCounts(it.stmts[i].kw)

LastGiven(stmts, kw, n) == LexItem_to_string(LastArgs(stmts, kw)[n])

GivenText(stmts, kw, n) ==
    IF Occurrences(stmts, kw) = {} THEN NoneStr ELSE Some(LastGiven(stmts, kw, n))

GivenName(stmts, kw) ==
    IF Occurrences(stmts, kw) = {} THEN NoneStr
    ELSE Some(WithoutQuotes(LastGiven(stmts, kw, 1)))

GivenInstant(stmts, kw) ==
    IF Occurrences(stmts, kw) = {} THEN NoneDate
    ELSE Some(Date_from(LastGiven(stmts, kw, 1), LastGiven(stmts, kw, 2),
                        LastGiven(stmts, kw, 3)).v)

GivenHardware(stmts) ==
    IF Occurrences(stmts, "Hardware") = {} THEN NoneHw
    ELSE Some([h_type |-> LastGiven(stmts, "Hardware", 1),
               mac |-> LastGiven(stmts, "Hardware", 2)])

C18_LastStatementWins ==
    \A i \in ParsedBlocks :
        LET stmts == LeaseBlocks(source)[i].stmts
            rec == BlockRecord(i)
        IN ShapedBlock(LeaseBlocks(source)[i]) =>
              /\ rec.dates.starts = GivenInstant(stmts, "Starts")
              /\ rec.dates.ends = GivenInstant(stmts, "Ends")
              /\ rec.cltt = GivenInstant(stmts, "Cltt")
              /\ rec.hardware = GivenHardware(stmts)
              /\ rec.uid = GivenText(stmts, "Uid", 1)
              /\ rec.client_hostname = GivenName(stmts, "ClientHostname")
              /\ rec.hostname = GivenName(stmts, "Hostname")
              /\ rec.binding = GivenText(stmts, "Binding", 2)
              /\ rec.next_binding = GivenText(stmts, "Next", 3)
              /\ rec.rewind_binding = GivenText(stmts, "Rewind", 3)

\* two uid statements with different identifiers: the record has the second
C18_Witness ==
    /\ result.kind = "Ok" /\ Len(source) = 1 /\ Len(source[1].stmts) = 2
    /\ source[1].stmts[1] = Stmt("Uid", <<W("u")>>, TRUE)
    /\ source[1].stmts[2] = Stmt("Uid", <<W("v")>>, TRUE)
    /\ result.leases[1].uid = Some(<<"v">>)

\* C19: inside a lease block, a token at a statement start that is neither
\* an option keyword nor the closing brace (a literal, a terminator, an open
\* brace, a declaration keyword) makes parse_lease return a failure that
\* names the token, and the token is not consumed.
AtOtherToken ==
    /\ pc = "lease" /\ Has(tokens, pos)
    /\ tokens[pos].kind # "Opt" /\ tokens[pos] # Paren("}")

\* the index of the first stray token among the statements of a block, 0 if none
FirstStray(stmts) ==
    LET stray == {i \in 1..Len(stmts) : stmts[i].kw = ""}
    IN IF stray = {} THEN 0 ELSE CHOOSE i \in stray : \A j \in stray : i <= j

StrayInBlock(src) ==
    /\ Len(src) = 1 /\ src[1].head = LeaseHead(W("a"))
    /\ FirstStray(src[1].stmts) > 0
    /\ \A j \in 1..(FirstStray(src[1].stmts) - 1) : src[1].stmts[j] \in GoodStmts

StrayToken(src) == src[1].stmts[FirstStray(src[1].stmts)].args[1]

StrayPosition(src) ==
    Len(src[1].head)
    + Len(Flatten([j \in 1..(FirstStray(src[1].stmts) - 1) |-> StmtTokens(src[1].stmts[j])]))
    + 1

C19_UnexpectedInBlock ==
    /\ AtOtherToken =>
          LET o == parse_lease_arm(tokens, lease, pos)
          IN /\ o.st = "err"
             /\ o.msg = Msg("Unexpected option", LexItem_to_string(tokens[pos]))
             /\ o.pos = pos /\ o.lease = lease
    /\ (pc = "done" /\ StrayInBlock(source)) =>
          /\ result = Failure(Msg("Unexpected option", LexItem_to_string(StrayToken(source))))
          /\ pos = StrayPosition(source) /\ tokens[pos] = StrayToken(source)

\* a declaration keyword met after a complete statement of the block
C19_Witness ==
    /\ pc = "done" /\ StrayInBlock(source) /\ FirstStray(source[1].stmts) = 2
    /\ tokens[pos] = Decl("Lease")
    /\ result = Failure(Msg("Unexpected option", <<"l", "e", "a", "s", "e">>))

\* C20: each successfully parsed statement changes only the field designated
\* for its keyword and leaves every other field, the address included, as it
\* was: a set statement changes no field, and binding, next and rewind store
\* the final state identifier, and nothing of the words before it, in
\* binding, next_binding and rewind_binding respectively.
RecordFields ==
    {"ip", "starts", "ends", "hardware", "uid", "cltt", "client_hostname", "hostname",
     "abandoned", "binding", "next_binding", "rewind_binding"}

FieldOf(l, f) ==
    CASE f = "starts" -> l.dates.starts
      [] f = "ends" -> l.dates.ends
      [] OTHER -> l[f]

Designated(kw) ==
    CASE kw = "Starts" -> {"starts"}
      [] kw = "Ends" -> {"ends"}
      [] kw = "Cltt" -> {"cltt"}
      [] kw = "Hardware" -> {"hardware"}
      [] kw = "Uid" -> {"uid"}
      [] kw = "ClientHostname" -> {"client_hostname"}
      [] kw = "Hostname" -> {"hostname"}
      [] kw = "Abandoned" -> {"abandoned"}
      [] kw = "Binding" -> {"binding"}
      [] kw = "Next" -> {"next_binding"}
      [] kw = "Rewind" -> {"rewind_binding"}
      [] kw = "Set" -> {}

StatementParsed == pc = "lease" /\ pc' = "lease" /\ pos' # pos

C20_FrameOfStatement ==
    [][StatementParsed =>
          LET kw == tokens[pos].k
          IN /\ \A f \in RecordFields \ Designated(kw) : FieldOf(lease', f) = FieldOf(lease, f)
             /\ kw = "Set" => lease' = lease
             /\ kw = "Binding" => lease'.binding = Some(LexItem_to_string(tokens[pos + 2]))
             /\ kw = "Next" => lease'.next_binding = Some(LexItem_to_string(tokens[pos + 3]))
             /\ kw = "Rewind" => lease'.rewind_binding = Some(LexItem_to_string(tokens[pos + 3]))
             /\ tokens[pos' - 1] = Endl]_vars

\* a next statement parsed after a uid statement: only next_binding was added
C20_Witness ==
    /\ pc = "lease" /\ pos > 8
    /\ tokens[pos - 5] = Opt("Next") /\ tokens[pos - 1] = Endl
    /\ lease.next_binding = Some(<<"f">>) /\ tokens[pos - 2] = W("f")
    /\ ~lease.binding.some /\ ~lease.rewind_binding.some
    /\ lease.uid.some /\ lease.ip = <<"a">>

\* C21: no state leaks between lease blocks: the record appended for a block
\* is the one its own address and statements give from a fresh default
\* record, whatever blocks were parsed before it; a field set or the
\* abandoned flag raised in an earlier block is absent from the record of a
\* later block that has no statement for it; and a record already in the
\* log is not changed by parsing later blocks.
BlockAlone(it) ==
    LET toks == ItemTokens(it)
    IN parse_lease(toks, [Lease_new EXCEPT !.ip = LexItem_to_string(toks[2])], 4)

HasKeyword(it, kw) == \E n \in 1..Len(ItemTokens(it)) : ItemTokens(it)[n] = Opt(kw)

OwnRecordOnly ==
    \A i \in 1..Len(leases) :
        /\ i <= Len(source) /\ IsLeaseBlock(source[i]) /\ Len(ItemTokens(source[i])) >= 4
        /\ BlockAlone(source[i]).st = "ok"
        /\ ItemTokens(source[i])[BlockAlone(source[i]).pos] = Paren("}")
        /\ leases[i] = BlockAlone(source[i]).lease
        /\ leases[i].abandoned => HasKeyword(source[i], "Abandoned")
        /\ leases[i].hardware.some => HasKeyword(source[i], "Hardware")
        /\ leases[i].uid.some => HasKeyword(source[i], "Uid")
        /\ leases[i].hostname.some => HasKeyword(source[i], "Hostname")
        /\ leases[i].client_hostname.some => HasKeyword(source[i], "ClientHostname")
        /\ leases[i].dates.starts.some => HasKeyword(source[i], "Starts")
        /\ leases[i].dates.ends.some => HasKeyword(source[i], "Ends")
        /\ leases[i].cltt.some => HasKeyword(source[i], "Cltt")
        /\ leases[i].binding.some => HasKeyword(source[i], "Binding")
        /\ leases[i].next_binding.some => HasKeyword(source[i], "Next")
        /\ leases[i].rewind_binding.some => HasKeyword(source[i], "Rewind")

C21_NoLeakBetweenBlocks ==
    /\ []OwnRecordOnly
    /\ [](pc = "done" /\ result.kind = "Ok" => result.leases = leases)
    /\ [][Len(leases') >= Len(leases) /\ SubSeq(leases', 1, Len(leases)) = leases]_vars

\* an abandoned block with hardware, then a block with only a hostname, then
\* a third block: the second record has neither the flag nor the hardware
C21_Witness ==
    /\ pc = "done" /\ result.kind = "Ok" /\ Len(result.leases) = 3
    /\ result.leases[1].abandoned /\ result.leases[1].hardware.some
    /\ ~result.leases[2].abandoned /\ ~result.leases[2].hardware.some
    /\ result.leases[2].hostname.some /\ ~result.leases[3].hostname.some

====
